---- MODULE Spec2Model ----
(***************************************************************************)
(* A model of the tariff engine (tariff_engine.py) and of the Streamlit    *)
(* script that drives it (app.py).                                         *)
(*                                                                         *)
(* Representation.                                                         *)
(*  - A Python string is a sequence of one-character strings, so that      *)
(*    filtering, slicing and startswith are computed character by          *)
(*    character.                                                           *)
(*  - A Python float is a fixed-point integer counting ten-thousandths:    *)
(*    0.25 is 2500, 25.0 is 250000, and x / 100.0 is x \div 100.           *)
(*  - A CSV cell that feeds float() is a record [num, val]: num says       *)
(*    whether float() accepts the cell, val is the number it yields.       *)
(*  - A function that can raise returns either its value or the record     *)
(*    Raised.                                                              *)
(***************************************************************************)
EXTENDS Integers, Sequences, FiniteSets, TLC

VARIABLES
    all_dataframes, \* app.py:22, the dict returned by load_all_data()
    session_state,  \* st.session_state: [results, plan]
    plan_cache,     \* the st.cache_data store of get_calculation_plan_from_gemini
    ui,             \* what the last run of the script put on the page
    call            \* the last direct call of an engine function, with its result

vars == <<all_dataframes, session_state, plan_cache, ui, call>>

Min(a, b) == IF a <= b THEN a ELSE b

(***************************************************************************)
(* Strings                                                                 *)
(***************************************************************************)
Digits == {"0", "1", "2", "3", "4", "5", "6", "7", "8", "9"}

IsDigit(c) == c \in Digits

\* s[:n]
Slice(s, n) == SubSeq(s, 1, Min(n, Len(s)))

\* s.startswith(p)
StartsWith(s, p) == Len(p) <= Len(s) /\ SubSeq(s, 1, Len(p)) = p

LowerChar(c) ==
    CASE c = "C" -> "c"
      [] c = "H" -> "h"
      [] c = "I" -> "i"
      [] c = "N" -> "n"
      [] c = "A" -> "a"
      [] c = "G" -> "g"
      [] OTHER -> c

\* s.lower()
Lower(s) == [i \in 1..Len(s) |-> LowerChar(s[i])]

china == <<"c", "h", "i", "n", "a">>

\* tariff_engine.py:6-8
clean_hts(code) == SelectSeq(code, IsDigit)

(***************************************************************************)
(* Floats                                                                  *)
(***************************************************************************)
\* n percent as the float a CSV cell holds, e.g. the cell "25"
Pct(n) == n * 10000

\* duty_rate / 100.0
Div100(x) == x \div 100

NumCell(n) == [num |-> TRUE, val |-> Pct(n)]
TextCell == [num |-> FALSE, val |-> 0]

\* A Python number handed around as an object: num says whether it is one.
NumObj(x) == [num |-> TRUE, val |-> x]

\* What a call that can raise hands back.
Raised == [raised |-> TRUE, value |-> <<>>]
Returned(v) == [raised |-> FALSE, value |-> v]

\* None, and a value that is not None.
None == [some |-> FALSE]
Some(v) == [some |-> TRUE, v |-> v]

\* d.get(key, default)
Get(d, key, default) == IF key \in DOMAIN d THEN d[key] ELSE default

(***************************************************************************)
(* tariff_engine.py                                                        *)
(***************************************************************************)
FileKeys == {"general", "s301", "s232_2024", "s232_pre_may_25", "s232_post_may_25"}

\* One data frame of load_all_data: the rows of the file, each with its
\* HTS_Code_Clean column.
CleanFrame(rows) ==
    [i \in 1..Len(rows) |->
        [HTS_Code |-> rows[i].HTS_Code,
         Duty |-> rows[i].Duty,
         HTS_Code_Clean |-> clean_hts(rows[i].HTS_Code)]]

\* files maps the keys of the files that could be read to their rows; a file
\* that could not be read leaves its key out of the result.
load_all_data(files) == [k \in DOMAIN files |-> CleanFrame(files[k])]

\* get_section_301_rate comparing the country as it was typed.
Section301CaseSensitive(hts_code, country, s301_df) ==
    IF country # china
    THEN 0
    ELSE LET Keep(r) == StartsWith(r.HTS_Code_Clean, Slice(clean_hts(hts_code), 8))
             match == SelectSeq(s301_df, Keep)
         IN  IF match # <<>> /\ match[1].Duty.num
             THEN Div100(match[1].Duty.val)
             ELSE 0

get_section_301_rate(hts_code, country, s301_df) ==
    IF Lower(country) # china
    THEN 0
    ELSE LET clean_code_8_digit == Slice(clean_hts(hts_code), 8)
             Keep(r) == StartsWith(r.HTS_Code_Clean, clean_code_8_digit)
             match == SelectSeq(s301_df, Keep)
         IN  IF match # <<>>
             THEN IF match[1].Duty.num THEN Div100(match[1].Duty.val) ELSE 0
             ELSE 0

\* The cascade tried from the broadest heading up.
CascadeShortestFirst == <<4, 6, 8, 10>>

\* for length in [10, 8, 6, 4]
CascadeLengths == <<10, 8, 6, 4>>

RECURSIVE Cascade232(_, _, _)
\* The loop of get_section_232_rate from the i-th length on.
Cascade232(clean_code, scenario_df, i) ==
    IF i > Len(CascadeLengths)
    THEN 0
    ELSE LET target_code == Slice(clean_code, CascadeLengths[i])
             Keep(r) == r.HTS_Code_Clean = target_code
             match == SelectSeq(scenario_df, Keep)
         IN  IF match # <<>> /\ match[1].Duty.num
             THEN Div100(match[1].Duty.val)
             ELSE Cascade232(clean_code, scenario_df, i + 1)

get_section_232_rate(hts_code, scenario_df) ==
    Cascade232(clean_hts(hts_code), scenario_df, 1)

get_ieepa_rate(country, scenario_name) ==
    IF Lower(country) = china
       /\ scenario_name \in {"s232_pre_may_25", "s232_post_may_25"}
    THEN 2000
    ELSE 0

\* get_reciprocal_rate with the rates of the two 2025 scenarios exchanged.
ReciprocalExchanged(country, scenario_name) ==
    LET country_lower == Lower(country)
    IN  IF scenario_name = "s232_2024" THEN 0
        ELSE IF scenario_name = "s232_pre_may_25" /\ country_lower = china THEN 1000
        ELSE IF scenario_name = "s232_post_may_25" /\ country_lower = china THEN 12500
        ELSE 0

get_reciprocal_rate(country, scenario_name) ==
    LET country_lower == Lower(country)
    IN  IF scenario_name = "s232_2024" THEN 0
        ELSE IF scenario_name = "s232_pre_may_25" /\ country_lower = china THEN 12500
        ELSE IF scenario_name = "s232_post_may_25" /\ country_lower = china THEN 1000
        ELSE 0

\* The scenarios dict of calculate_all_tariffs, in insertion order.
scenarios ==
    << [name |-> "2024 Tariff", key |-> "s232_2024"],
       [name |-> "Pre-May 2025", key |-> "s232_pre_may_25"],
       [name |-> "Post-May 2025", key |-> "s232_post_may_25"] >>

\* The loop body resolving Section 232 against the 2024 table in every scenario.
ScenarioResult2024Table(hts_code, country, all_data, general_rate, scenario_key) ==
    LET s301_rate == get_section_301_rate(hts_code, country, all_data["s301"])
        s232_rate == get_section_232_rate(hts_code, all_data["s232_2024"])
        ieepa_rate == get_ieepa_rate(country, scenario_key)
        reciprocal_rate == get_reciprocal_rate(country, scenario_key)
        components ==
            [General_Rate |-> general_rate, Section_301 |-> s301_rate,
             IEEPA |-> ieepa_rate, Section_232 |-> s232_rate,
             Reciprocal |-> reciprocal_rate]
    IN  IF s232_rate > 0
        THEN [components |-> components,
              is_composite |-> TRUE,
              Metal_Component_Tariff |->
                  general_rate + s301_rate + ieepa_rate + s232_rate,
              Other_Component_Tariff |->
                  general_rate + s301_rate + ieepa_rate + reciprocal_rate]
        ELSE [components |-> components,
              is_composite |-> FALSE,
              Total_Tariff |->
                  general_rate + s301_rate + ieepa_rate + s232_rate + reciprocal_rate]

\* One pass of the loop body; general_rate is a number here.
scenario_result(hts_code, country, all_data, general_rate, scenario_key) ==
    LET s301_rate == get_section_301_rate(hts_code, country, all_data["s301"])
        s232_rate == get_section_232_rate(hts_code, all_data[scenario_key])
        ieepa_rate == get_ieepa_rate(country, scenario_key)
        reciprocal_rate == get_reciprocal_rate(country, scenario_key)
        components ==
            [General_Rate |-> general_rate, Section_301 |-> s301_rate,
             IEEPA |-> ieepa_rate, Section_232 |-> s232_rate,
             Reciprocal |-> reciprocal_rate]
    IN  IF s232_rate > 0
        THEN [components |-> components,
              is_composite |-> TRUE,
              Metal_Component_Tariff |->
                  general_rate + s301_rate + ieepa_rate + s232_rate,
              Other_Component_Tariff |->
                  general_rate + s301_rate + ieepa_rate + reciprocal_rate]
        ELSE [components |-> components,
              is_composite |-> FALSE,
              Total_Tariff |->
                  general_rate + s301_rate + ieepa_rate + s232_rate + reciprocal_rate]

\* general_rate is any Python object: adding a non-number to a float raises
\* TypeError, and indexing all_data with a key it lacks raises KeyError.
calculate_all_tariffs(hts_code, country, all_data, general_rate) ==
    IF \/ "s301" \notin DOMAIN all_data
       \/ \E i \in 1..Len(scenarios) : scenarios[i].key \notin DOMAIN all_data
       \/ ~general_rate.num
    THEN Raised
    ELSE Returned(
           [i \in 1..Len(scenarios) |->
              [scenario |-> scenarios[i].name,
               result |-> scenario_result(hts_code, country, all_data,
                                          general_rate.val, scenarios[i].key)]])

(***************************************************************************)
(* app.py: the lookup in Final_HTS.csv                                     *)
(***************************************************************************)
RECURSIVE CascadeGeneral(_, _, _)
\* The loop of get_hts_data_from_file from the i-th length on: the first row
\* found and the length it was found at, or None.
CascadeGeneral(clean_code, general_df, i) ==
    IF i > Len(CascadeLengths)
    THEN None
    ELSE LET target_code == Slice(clean_code, CascadeLengths[i])
             Keep(r) == r.HTS_Code_Clean = target_code
             match == SelectSeq(general_df, Keep)
         IN  IF match # <<>>
             THEN Some([row |-> match[1], length |-> CascadeLengths[i]])
             ELSE CascadeGeneral(clean_code, general_df, i + 1)

get_hts_data_from_file(dataframes, hts_code) ==
    IF "general" \notin DOMAIN dataframes
    THEN None
    ELSE CascadeGeneral(clean_hts(hts_code), dataframes["general"], 1)

(***************************************************************************)
(* Inputs                                                                  *)
(***************************************************************************)
\* The longest table a file holds.
MaxRows == 2

SeqsUpTo(S, n) == UNION {[1..k -> S] : k \in 0..n}

Hts10 == <<"7", "3", "0", "2", ".", "9", "0", ".", "0", "0", ".", "1", "5">>
Hts12 == Hts10 \o <<".", "9", "9">>
Hts8 == <<"7", "3", "0", "2", ".", "9", "0", ".", "0", "0">>
Hts6 == <<"7", "3", "0", "2", ".", "9", "0">>
Hts4 == <<"7", "3", "0", "2">>
HtsOther == <<"8", "5", "0", "1">>
\* A code without a digit: what str() makes of a blank HTS_Code cell.
HtsBlank == <<"n", "a", "n">>

China == <<"C", "h", "i", "n", "a">>
CHINA == <<"C", "H", "I", "N", "A">>
Germany == <<"G", "e", "r", "m", "a", "n", "y">>

ScenarioKeys == {"s232_2024", "s232_pre_may_25", "s232_post_may_25"}

\* The HTS_Code cells and the duty cells of the files.
FileCodes == {Hts10, Hts8, Hts6, Hts4, HtsBlank}
FileDuties == {NumCell(25), NumCell(0), NumCell(-5), TextCell}
FileRows == [HTS_Code : FileCodes, Duty : FileDuties]

\* The codes and countries the functions are called with.
QueryCodes == {Hts12, Hts10, Hts8, Hts6, Hts4, HtsOther, HtsBlank, <<>>}
QueryCountries == {China, CHINA, china, Germany}

NoCall == [fn |-> "none"]

\* The page before the script has drawn anything.
BlankPage == [drawn |-> FALSE]

(***************************************************************************)
(* Spec: the engine's functions and the lookup, called directly on the    *)
(* data frame of one file.                                                 *)
(***************************************************************************)
Init ==
    /\ \E k \in FileKeys, rows \in SeqsUpTo(FileRows, MaxRows) :
          all_dataframes = load_all_data(k :> rows)
    /\ session_state = ("results" :> None)
    /\ plan_cache = <<>>
    /\ ui = BlankPage
    /\ call = NoCall

CallSection301 ==
    /\ call.fn = "none"
    /\ "s301" \in DOMAIN all_dataframes
    /\ \E code \in QueryCodes, country \in QueryCountries :
          call' = [fn |-> "get_section_301_rate", hts_code |-> code,
                   country |-> country, df |-> "s301",
                   ret |-> get_section_301_rate(code, country, all_dataframes["s301"])]
    /\ UNCHANGED <<all_dataframes, session_state, plan_cache, ui>>

CallSection232 ==
    /\ call.fn = "none"
    /\ \E key \in ScenarioKeys \cap DOMAIN all_dataframes, code \in QueryCodes :
          call' = [fn |-> "get_section_232_rate", hts_code |-> code,
                   country |-> <<>>, df |-> key,
                   ret |-> get_section_232_rate(code, all_dataframes[key])]
    /\ UNCHANGED <<all_dataframes, session_state, plan_cache, ui>>

CallIeepa ==
    /\ call.fn = "none"
    /\ \E country \in QueryCountries, key \in ScenarioKeys :
          call' = [fn |-> "get_ieepa_rate", hts_code |-> <<>>,
                   country |-> country, df |-> key,
                   ret |-> get_ieepa_rate(country, key)]
    /\ UNCHANGED <<all_dataframes, session_state, plan_cache, ui>>

CallReciprocal ==
    /\ call.fn = "none"
    /\ \E country \in QueryCountries, key \in ScenarioKeys :
          call' = [fn |-> "get_reciprocal_rate", hts_code |-> <<>>,
                   country |-> country, df |-> key,
                   ret |-> get_reciprocal_rate(country, key)]
    /\ UNCHANGED <<all_dataframes, session_state, plan_cache, ui>>

CallLookup ==
    /\ call.fn = "none"
    /\ \E code \in QueryCodes :
          call' = [fn |-> "get_hts_data_from_file", hts_code |-> code,
                   country |-> <<>>, df |-> "general",
                   ret |-> get_hts_data_from_file(all_dataframes, code)]
    /\ UNCHANGED <<all_dataframes, session_state, plan_cache, ui>>

Next ==
    \/ CallSection301
    \/ CallSection232
    \/ CallIeepa
    \/ CallReciprocal
    \/ CallLookup

Spec == Init /\ [][Next]_vars

(***************************************************************************)
(* Properties of the resolvers and of the lookup (under Spec)              *)
(***************************************************************************)
\* The spellings of China among the countries of the calls.
SpelledChina(country) == country \in {China, CHINA, china}

\* The digits of the code of the call, and the frame the call was given.
CallDigits == SelectSeq(call.hts_code, LAMBDA c : c \in Digits)
CallFrame == all_dataframes[call.df]

\* The rows of df whose normalized code equals the first n digits of q, and
\* those whose normalized code starts with them.
RowsEqual(df, q, n) ==
    {i \in 1..Len(df) : df[i].HTS_Code_Clean = SubSeq(q, 1, Min(n, Len(q)))}
RowsStarting(df, q, n) ==
    {i \in 1..Len(df) :
        LET p == SubSeq(q, 1, Min(n, Len(q)))
        IN  /\ Len(df[i].HTS_Code_Clean) >= Len(p)
            /\ \A j \in 1..Len(p) : df[i].HTS_Code_Clean[j] = p[j]}
First(S) == CHOOSE i \in S : \A j \in S : i <= j

\* Length n yields a rate: the first row matching at n has a duty that parses.
Yields(df, q, n) ==
    /\ RowsEqual(df, q, n) # {}
    /\ df[First(RowsEqual(df, q, n))].Duty.num

\* C2: get_section_232_rate tries the lengths 10, 8, 6, 4 in that order; the
\* first length whose first matching row has a duty that parses decides the
\* result, that duty divided by 100; a first matching row whose duty does not
\* parse passes the search on to the next length; with no such length the
\* result is 0. So a row matching at 10 digits (with a duty that parses) wins
\* over a row matching at 4.
C2_Section232Cascade ==
    call.fn = "get_section_232_rate" =>
        LET order == <<10, 8, 6, 4>>
            df == CallFrame
            q == CallDigits
        IN  /\ \A k \in 1..4 :
                  ( /\ Yields(df, q, order[k])
                    /\ \A j \in 1..(k - 1) : ~Yields(df, q, order[j]) )
                  => call.ret * 100 = df[First(RowsEqual(df, q, order[k]))].Duty.val
            /\ (\A k \in 1..4 : ~Yields(df, q, order[k])) => call.ret = 0

\* C2 witness: rows match the 10-digit and the 4-digit truncation of the
\* query with different duties that parse, and the 10-digit row's rate came back.
C2_Witness ==
    /\ call.fn = "get_section_232_rate"
    /\ Len(CallDigits) >= 10
    /\ \E i \in RowsEqual(CallFrame, CallDigits, 10),
          j \in RowsEqual(CallFrame, CallDigits, 4) :
          /\ CallFrame[i].Duty.num /\ CallFrame[j].Duty.num
          /\ CallFrame[i].Duty.val # CallFrame[j].Duty.val
          /\ i = First(RowsEqual(CallFrame, CallDigits, 10))
          /\ call.ret * 100 = CallFrame[i].Duty.val
          /\ call.ret # 0

\* C3: get_section_301_rate is 0 unless the country is China in any case;
\* for China it is the duty, divided by 100, of the first row whose
\* normalized code starts with the first 8 digits of the query, and 0 when no
\* row matches or that duty does not parse.
C3_Section301 ==
    call.fn = "get_section_301_rate" =>
        LET df == CallFrame
            S == RowsStarting(df, CallDigits, 8)
        IN  /\ ~SpelledChina(call.country) => call.ret = 0
            /\ (SpelledChina(call.country) /\ S = {}) => call.ret = 0
            /\ (SpelledChina(call.country) /\ S # {}) =>
                  IF df[First(S)].Duty.num
                  THEN call.ret * 100 = df[First(S)].Duty.val
                  ELSE call.ret = 0

\* C3 witness: a call for China in which two rows of different duties start
\* with the query's 8 digits, and the first one's rate came back.
C3_Witness ==
    /\ call.fn = "get_section_301_rate"
    /\ SpelledChina(call.country)
    /\ Len(CallDigits) >= 8
    /\ LET S == RowsStarting(CallFrame, CallDigits, 8)
       IN  /\ Cardinality(S) >= 2
           /\ CallFrame[First(S)].Duty.num
           /\ \E j \in S : CallFrame[j].Duty # CallFrame[First(S)].Duty
           /\ call.ret # 0
           /\ call.ret * 100 = CallFrame[First(S)].Duty.val

\* C4: for a code without a digit, the Section 301 and Section 232 resolvers
\* return 0 and the lookup in the general table finds nothing.
C4_EmptyCodeNeverMatches ==
    (call.fn # "none" /\ CallDigits = <<>>) =>
        /\ call.fn = "get_section_301_rate" => call.ret = 0
        /\ call.fn = "get_section_232_rate" => call.ret = 0
        /\ call.fn = "get_hts_data_from_file" => ~call.ret.some

\* The (IEEPA, Reciprocal) rates by country and scenario, in ten-thousandths.
RuleTable(country, key) ==
    IF SpelledChina(country) /\ key = "s232_pre_may_25" THEN <<2000, 12500>>
    ELSE IF SpelledChina(country) /\ key = "s232_post_may_25" THEN <<2000, 1000>>
    ELSE <<0, 0>>

\* C5: (IEEPA, Reciprocal) is (0.20, 1.25) for China before May 2025,
\* (0.20, 0.10) for China after it, and (0, 0) for every other pair.
C5_TableFreeResolvers ==
    /\ call.fn = "get_ieepa_rate" => call.ret = RuleTable(call.country, call.df)[1]
    /\ call.fn = "get_reciprocal_rate" => call.ret = RuleTable(call.country, call.df)[2]

\* C5 witness: the reciprocal rate of CHINA, in capitals, before May 2025.
C5_Witness ==
    /\ call.fn = "get_reciprocal_rate"
    /\ call.country = CHINA
    /\ call.df = "s232_pre_may_25"
    /\ call.ret = 12500

\* C7: every resolver returns a rate that is at least 0.
C7_RatesNonNegative ==
    call.fn \in {"get_section_301_rate", "get_section_232_rate",
                 "get_ieepa_rate", "get_reciprocal_rate"} => call.ret >= 0

(***************************************************************************)
(* ComposerSpec: calculate_all_tariffs called directly on the data frames *)
(* of the Section 301 and Section 232 files that could be read.            *)
(***************************************************************************)
\* The longest Section 301 or Section 232 table under ComposerSpec and AppSpec.
MaxSectionRows == 1

SectionKeys == {"s301"} \cup ScenarioKeys
SectionRows == [HTS_Code : {Hts4}, Duty : {NumCell(25), NumCell(-5), TextCell}]
SectionFiles ==
    UNION {[D -> SeqsUpTo(SectionRows, MaxSectionRows)] : D \in SUBSET SectionKeys}

ComposerCodes == {Hts4, HtsOther}
ComposerCountries == {China, Germany}
\* 0.0 and 0.025
ComposerGeneralRates == {NumObj(0), NumObj(250)}

ComposerInit ==
    /\ \E files \in SectionFiles : all_dataframes = load_all_data(files)
    /\ session_state = ("results" :> None)
    /\ plan_cache = <<>>
    /\ ui = BlankPage
    /\ call = NoCall

CallCalculateAll ==
    /\ call.fn = "none"
    /\ \E code \in ComposerCodes, country \in ComposerCountries,
          rate \in ComposerGeneralRates :
          call' = [fn |-> "calculate_all_tariffs", hts_code |-> code,
                   country |-> country, df |-> "all", general_rate |-> rate,
                   ret |-> calculate_all_tariffs(code, country, all_dataframes, rate)]
    /\ UNCHANGED <<all_dataframes, session_state, plan_cache, ui>>

ComposerNext == CallCalculateAll

ComposerSpec == ComposerInit /\ [][ComposerNext]_vars

\* The scenario results of the call, once it has returned.
CallReturned == call.fn = "calculate_all_tariffs" /\ ~call.ret.raised
CallResults == call.ret.value

\* C1: a scenario result is composite exactly when its Section 232 rate is
\* above zero; composite, it carries metal = general + s301 + ieepa + s232 and
\* other = general + s301 + ieepa + reciprocal and no total; not composite, it
\* carries total = general + s301 + ieepa + reciprocal and no metal or other.
C1_CompositeRule ==
    CallReturned =>
        \A i \in 1..Len(CallResults) :
            LET r == CallResults[i].result
                c == r.components
                base == c.General_Rate + c.Section_301 + c.IEEPA
            IN  /\ r.is_composite <=> c.Section_232 > 0
                /\ r.is_composite =>
                      /\ DOMAIN r = {"components", "is_composite",
                                      "Metal_Component_Tariff", "Other_Component_Tariff"}
                      /\ r.Metal_Component_Tariff = base + c.Section_232
                      /\ r.Other_Component_Tariff = base + c.Reciprocal
                /\ ~r.is_composite =>
                      /\ DOMAIN r = {"components", "is_composite", "Total_Tariff"}
                      /\ r.Total_Tariff = base + c.Reciprocal

AllSectionFilesRead == SectionKeys \subseteq DOMAIN all_dataframes

\* C6: with the Section 301 table and the three Section 232 tables,
\* calculate_all_tariffs returns; its result holds the three scenarios in the
\* order 2024, Pre-May 2025, Post-May 2025; every scenario has the five
\* components, the general rate it was given, the same Section 301 rate, and
\* the Section 232 rate of its own table.
C6_ThreeScenarios ==
    (call.fn = "calculate_all_tariffs" /\ AllSectionFilesRead) =>
        /\ ~call.ret.raised
        /\ [i \in 1..Len(CallResults) |-> CallResults[i].scenario]
             = <<"2024 Tariff", "Pre-May 2025", "Post-May 2025">>
        /\ LET own == <<"s232_2024", "s232_pre_may_25", "s232_post_may_25">>
           IN  \A i \in 1..Len(CallResults) :
                 LET c == CallResults[i].result.components
                 IN  /\ DOMAIN c = {"General_Rate", "Section_301", "IEEPA",
                                     "Section_232", "Reciprocal"}
                     /\ c.General_Rate = call.general_rate.val
                     /\ c.Section_301 = CallResults[1].result.components.Section_301
                     /\ c.Section_232
                          = get_section_232_rate(call.hts_code, all_dataframes[own[i]])

\* C6 witness: a call that returned with the three Section 232 tables giving
\* three different rates, a Section 301 rate and a general rate.
C6_Witness ==
    /\ CallReturned
    /\ AllSectionFilesRead
    /\ call.general_rate.val > 0
    /\ CallResults[1].result.components.Section_301 > 0
    /\ CallResults[1].result.components.Section_232 > 0
    /\ CallResults[2].result.components.Section_232 < 0
    /\ CallResults[3].result.components.Section_232 = 0

(***************************************************************************)
(* app.py: the script                                                      *)
(***************************************************************************)
\* A parsed JSON value: an object (a dict d) or something else, such as [].
JsonObject(d) == [dict |-> TRUE, d |-> d]
JsonArray == [dict |-> FALSE, d |-> <<>>]

\* A string where a number is expected, such as "2.5%".
StrObj == [num |-> FALSE, val |-> 0]

\* app.py:82
DefaultPlan ==
    JsonObject([decimal_rate |-> NumObj(0), requires_more_info |-> TRUE,
                explanation |-> "could not process"])

\* What model.generate_content and json.loads come to: json is the parsed
\* response, ok is FALSE when either of them raised.
GeminiFailure == [ok |-> FALSE, json |-> JsonArray]
GeminiReturns(json) == [ok |-> TRUE, json |-> json]

\* app.py:55-82; reply is what the service does with this rate_string.
get_calculation_plan_from_gemini(rate_string, reply) ==
    IF reply.ok THEN reply.json ELSE DefaultPlan

\* Money is a float of dollars; a * b of two floats.
Dollars(n) == n * 10000
MulFloat(a, b) == (a * b) \div 10000

\* f"{x:,.2f}": the amount in cents
Cents(x) == (x + 50) \div 100

\* f"{x:.2%}": the rate in hundredths of a percent, which its ten-thousandths are
Percent2(x) == x

\* bool(x) of a value read with .get(): None and False are falsy.
Truthy(opt) == opt.some /\ opt.v # FALSE

\* session_state with key set to value
SetItem(d, key, value) == (key :> value) @@ d

\* What a run of the button's block leaves: the session state, the cache, the
\* messages it wrote, whether it called the text service and the engine, and
\* whether it ended in an uncaught exception.
Outcome(session, cache, messages, reply, calc, raised) ==
    [session |-> session, cache |-> cache, messages |-> messages,
     reply |-> reply, calc |-> calc, raised |-> raised]

\* app.py:99-100
EmptyInputOutcome ==
    Outcome(session_state, plan_cache, {"enter_code"}, None, FALSE, FALSE)

\* The else-branch leaving the stored results as they are.
NotFoundKeepsResults ==
    Outcome(session_state, plan_cache, {"not_found"}, None, FALSE, FALSE)

\* app.py:125-127
NotFoundOutcome ==
    Outcome(SetItem(session_state, "results", None), plan_cache,
            {"not_found"}, None, FALSE, FALSE)

\* app.py:106-124, for the row the lookup found
FoundOutcome(hts_input, country_input, hts_data, reply) ==
    LET rate_string == hts_data.row.Duty
        cached == rate_string \in DOMAIN plan_cache
        plan == IF cached
                THEN plan_cache[rate_string]
                ELSE get_calculation_plan_from_gemini(rate_string, reply)
        cache == IF cached THEN plan_cache ELSE (rate_string :> plan) @@ plan_cache
        called == IF cached THEN None ELSE Some(reply)
        messages == {"found", "description"}
    IN  IF ~plan.dict
        THEN \* plan.get: AttributeError
             Outcome(session_state, cache, messages, called, FALSE, TRUE)
        ELSE LET live_general_rate == Get(plan.d, "decimal_rate", NumObj(0))
                 results == calculate_all_tariffs(hts_input, country_input,
                                                  all_dataframes, live_general_rate)
             IN  IF results.raised
                 THEN Outcome(session_state, cache, messages, called, TRUE, TRUE)
                 ELSE Outcome(SetItem(SetItem(session_state, "results",
                                              Some(results.value)),
                                      "plan", Some(plan)),
                              cache, messages, called, TRUE, FALSE)

\* app.py:98-127
ButtonBlock(hts_input, country_input, reply) ==
    IF hts_input = <<>>
    THEN EmptyInputOutcome
    ELSE LET hts_data == get_hts_data_from_file(all_dataframes, hts_input)
         IN  IF hts_data.some
             THEN FoundOutcome(hts_input, country_input, hts_data.v, reply)
             ELSE NotFoundOutcome

\* app.py:171-176 for one scenario
TariffValue(is_composite, result_data, values, total_fob) ==
    IF is_composite
    THEN MulFloat(values.metal, Get(result_data, "Metal_Component_Tariff", 0))
         + MulFloat(values.other, Get(result_data, "Other_Component_Tariff", 0))
    ELSE MulFloat(total_fob, Get(result_data, "Total_Tariff", 0))

NoResultsSection ==
    [shown |-> FALSE, messages |-> {}, is_composite |-> FALSE, summary |-> <<>>,
     values |-> [metal |-> 0, other |-> 0, total |-> 0], total_fob |-> 0,
     landed |-> <<>>, details |-> <<>>]

\* app.py:130-195: the results section, for the number inputs as the browser
\* sends them (metal and other when composite, total otherwise).
ResultsSection(session, values) ==
    IF ~Get(session, "results", None).some
    THEN NoResultsSection
    ELSE LET results == session["results"].v
             plan == Get(session, "plan", None)
             is_composite == Get(results[1].result, "is_composite", FALSE)
             shown_values ==
                 IF is_composite
                 THEN [metal |-> values.metal, other |-> values.other, total |-> 0]
                 ELSE [metal |-> 0, other |-> 0, total |-> values.total]
             total_fob == IF is_composite
                          THEN values.metal + values.other
                          ELSE values.total
             SummaryRow(i) ==
                 LET result_data == results[i].result
                 IN  IF is_composite
                     THEN [Scenario |-> results[i].scenario,
                           Metal |-> Percent2(Get(result_data, "Metal_Component_Tariff", 0)),
                           Other |-> Percent2(Get(result_data, "Other_Component_Tariff", 0))]
                     ELSE [Scenario |-> results[i].scenario,
                           Total |-> Percent2(Get(result_data, "Total_Tariff", 0))]
             LandedRow(i) ==
                 LET total_tariff_value ==
                         TariffValue(is_composite, results[i].result,
                                     shown_values, total_fob)
                 IN  [Scenario |-> results[i].scenario,
                      Total_Tariff_Value |-> Cents(total_tariff_value),
                      Total_Landed_Cost |-> Cents(total_fob + total_tariff_value)]
         IN  [shown |-> TRUE,
              messages |->
                  IF plan.some /\ plan.v.d # <<>>
                  THEN {"explanation"} \cup
                       (IF Truthy(IF "requires_more_info" \in DOMAIN plan.v.d
                                  THEN Some(plan.v.d.requires_more_info)
                                  ELSE None)
                        THEN {"complex_tariff"}
                        ELSE {})
                  ELSE {},
              is_composite |-> is_composite,
              summary |-> [i \in 1..Len(results) |-> SummaryRow(i)],
              values |-> shown_values,
              total_fob |-> total_fob,
              landed |-> IF total_fob > 0
                         THEN [i \in 1..Len(results) |-> LandedRow(i)]
                         ELSE <<>>,
              details |-> [i \in 1..Len(results) |->
                            [Scenario |-> results[i].scenario,
                             components |-> results[i].result.components]]]

\* The page one run of the script draws.
Page(clicked, hts_input, country_input, outcome, values) ==
    LET section == IF outcome.raised
                   THEN NoResultsSection
                   ELSE ResultsSection(outcome.session, values)
    IN  [drawn |-> TRUE, clicked |-> clicked, hts_input |-> hts_input,
         country_input |-> country_input,
         messages |-> outcome.messages \cup section.messages
                      \cup (IF outcome.raised THEN {"exception"} ELSE {}),
         reply |-> outcome.reply, calc_called |-> outcome.calc,
         raised |-> outcome.raised, section |-> section]

(***************************************************************************)
(* AppSpec: runs of the script in one session                              *)
(***************************************************************************)
AppHtsInputs == {<<>>, Hts8, HtsOther}
\* The selectbox of app.py:95; its first option is the one selected at first.
AppCountries == {China, Germany}
Money == {0, Dollars(10)}
NoNumbers == [metal |-> 0, other |-> 0, total |-> 0]

GeminiReplies ==
    { GeminiFailure,
      GeminiReturns(JsonObject([decimal_rate |-> NumObj(250),
                                requires_more_info |-> FALSE,
                                explanation |-> "ad valorem"])),
      GeminiReturns(JsonObject([explanation |-> "depends on the article"])),
      GeminiReturns(JsonObject([decimal_rate |-> StrObj,
                                requires_more_info |-> FALSE,
                                explanation |-> "ad valorem"])),
      GeminiReturns(JsonArray) }

GeneralRows == [HTS_Code : {Hts4}, Duty : {TextCell}]
App301Rows == [HTS_Code : {Hts10}, Duty : {NumCell(25)}]
App232Rows == [HTS_Code : {Hts4}, Duty : {NumCell(25)}]

AppFiles ==
    { general @@ sections :
        general \in {<<>>} \cup
                    {("general" :> rows) : rows \in SeqsUpTo(GeneralRows, MaxSectionRows)},
        sections \in
            { ("s301" :> t) @@ f :
                t \in SeqsUpTo(App301Rows, MaxSectionRows),
                f \in [ScenarioKeys -> SeqsUpTo(App232Rows, MaxSectionRows)] } }

\* A run of the script with the button not pressed.
PlainRun(hts_input, country_input, values) ==
    Page(FALSE, hts_input, country_input,
         Outcome(session_state, plan_cache, {}, None, FALSE, FALSE), values)

\* The session after the script's first run, which draws the empty form.
AppInit ==
    /\ \E files \in AppFiles : all_dataframes = load_all_data(files)
    /\ session_state = ("results" :> None)
    /\ plan_cache = <<>>
    /\ ui = Page(FALSE, <<>>, China,
                 Outcome(("results" :> None), <<>>, {}, None, FALSE, FALSE),
                 NoNumbers)
    /\ call = NoCall

\* The number inputs the page holds: those of the results section it shows.
CurrentNumbers == ui.section.values

\* The text input changes: the script runs again.
EnterHtsCode ==
    /\ \E hts_input \in AppHtsInputs \ {ui.hts_input} :
          ui' = PlainRun(hts_input, ui.country_input, CurrentNumbers)
    /\ UNCHANGED <<all_dataframes, session_state, plan_cache, call>>

\* The selectbox changes: the script runs again.
SelectCountry ==
    /\ \E country_input \in AppCountries \ {ui.country_input} :
          ui' = PlainRun(ui.hts_input, country_input, CurrentNumbers)
    /\ UNCHANGED <<all_dataframes, session_state, plan_cache, call>>

\* One of the number inputs on the page changes: the script runs again.
EnterNumber ==
    /\ ui.section.shown
    /\ \E widget \in IF ui.section.is_composite
                       THEN {"metal", "other"}
                       ELSE {"total"},
          value \in Money :
          ui' = PlainRun(ui.hts_input, ui.country_input,
                         [CurrentNumbers EXCEPT ![widget] = value])
    /\ UNCHANGED <<all_dataframes, session_state, plan_cache, call>>

\* The button "Calculate Tariffs" is pressed: the script runs with the
\* button's block, and reply is what the text service would answer.
ClickCalculate ==
    \E reply \in GeminiReplies :
        LET outcome == ButtonBlock(ui.hts_input, ui.country_input, reply)
        IN  /\ session_state' = outcome.session
            /\ plan_cache' = outcome.cache
            /\ ui' = Page(TRUE, ui.hts_input, ui.country_input, outcome,
                          CurrentNumbers)
            /\ UNCHANGED <<all_dataframes, call>>

AppNext ==
    \/ EnterHtsCode
    \/ SelectCountry
    \/ EnterNumber
    \/ ClickCalculate

AppSpec == AppInit /\ [][AppNext]_vars

(***************************************************************************)
(* Properties of the script (under AppSpec)                                *)
(***************************************************************************)
StoredResults == session_state["results"]

\* No row of the general table equals the code's digits cut to 10, 8, 6 or 4,
\* or there is no general table.
LookupMisses(hts_input) ==
    \/ "general" \notin DOMAIN all_dataframes
    \/ \A n \in {10, 8, 6, 4} :
         RowsEqual(all_dataframes["general"],
                   SelectSeq(hts_input, LAMBDA c : c \in Digits), n) = {}

\* The run that drew the page was a press of the button with a code typed in.
Pressed == ui.clicked /\ ui.hts_input # <<>>

C8_Page ==
    /\ (Pressed /\ LookupMisses(ui.hts_input)) =>
          /\ "not_found" \in ui.messages
          /\ ~ui.reply.some
          /\ ~ui.calc_called
          /\ ~StoredResults.some
    /\ ui.section.shown => StoredResults.some
    /\ (Pressed /\ ~LookupMisses(ui.hts_input) /\ ~ui.raised) =>
          /\ "not_found" \notin ui.messages
          /\ ui.calc_called
          /\ StoredResults.some
          /\ LET q == SelectSeq(ui.hts_input, LAMBDA c : c \in Digits)
             IN  \A i \in 1..Len(StoredResults.v) :
                   LET c == StoredResults.v[i].result.components
                       df == all_dataframes[scenarios[i].key]
                   IN  /\ (\A n \in {10, 8, 6, 4} : RowsEqual(df, q, n) = {})
                            => c.Section_232 = 0
                       /\ RowsStarting(all_dataframes["s301"], q, 8) = {}
                            => c.Section_301 = 0

\* Results come to be stored only by a press of the button whose lookup found
\* a row.
C8_Step ==
    (~StoredResults.some /\ StoredResults'.some) =>
        /\ ui'.clicked
        /\ ui'.hts_input # <<>>
        /\ ~LookupMisses(ui'.hts_input)
        /\ ui'.calc_called

\* C8: when the lookup in the general table finds no row (or there is no
\* general table), the error is shown, neither the text service nor
\* calculate_all_tariffs is called and the stored results are cleared, so that
\* no results are on the page until a later lookup succeeds; a miss in the
\* Section 301 or Section 232 table does not stop the calculation and gives
\* the rate 0.
C8_FailedLookupBlocks == []C8_Page /\ [][C8_Step]_vars

\* C8 witness: a press of the button whose lookup failed, in a session that
\* had stored the plan and the results of an earlier press.
C8_Witness ==
    /\ Pressed
    /\ "not_found" \in ui.messages
    /\ "plan" \in DOMAIN session_state
    /\ ~StoredResults.some
    /\ ~ui.section.shown

\* The text service raised, or answered something that holds no number under
\* decimal_rate.
Unusable(reply) ==
    \/ ~reply.ok
    \/ ~reply.json.dict
    \/ "decimal_rate" \notin DOMAIN reply.json.d
    \/ ~reply.json.d.decimal_rate.num

\* C9: when the text service fails or its answer is unusable, the default
\* plan (rate 0, requires_more_info true) takes its place and the calculation
\* completes: calculate_all_tariffs runs with general rate 0, the three
\* scenarios are stored and the flag is shown.
C9_DefaultPlanOnFailure ==
    (ui.reply.some /\ Unusable(ui.reply.v)) =>
        /\ ~ui.raised
        /\ ui.calc_called
        /\ StoredResults.some
        /\ Len(StoredResults.v) = 3
        /\ \A i \in 1..Len(StoredResults.v) :
             StoredResults.v[i].result.components.General_Rate = 0
        /\ session_state["plan"].v.d.decimal_rate = NumObj(0)
        /\ session_state["plan"].v.d.requires_more_info = TRUE
        /\ "complex_tariff" \in ui.messages

\* The duty of a scenario on the metal and the other value, and on the base.
CompositeDuty(r, metal, other) ==
    (metal * r.Metal_Component_Tariff) \div 10000
    + (other * r.Other_Component_Tariff) \div 10000
SimpleDuty(r, base) == (base * r.Total_Tariff) \div 10000

RowShows(row, base, duty) ==
    /\ row.Total_Tariff_Value = (duty + 50) \div 100
    /\ row.Total_Landed_Cost = (base + duty + 50) \div 100

\* C10: for every scenario of the stored results the page shows the duty of
\* that scenario's own rates (metal value * metal rate + other value * other
\* rate if the scenario is composite, base value * total rate if it is not)
\* and the landed cost, base value + duty. Where the page asks for one base
\* value only, any split of it into a metal and an other value will do.
C10_LandedCostUsesOwnRates ==
    (ui.section.shown /\ ui.section.total_fob > 0) =>
        \A i \in 1..Len(StoredResults.v) :
            LET r == StoredResults.v[i].result
                row == ui.section.landed[i]
                base == ui.section.total_fob
            IN  IF ~r.is_composite
                THEN RowShows(row, base, SimpleDuty(r, base))
                ELSE IF ui.section.is_composite
                THEN RowShows(row, base,
                              CompositeDuty(r, ui.section.values.metal,
                                            ui.section.values.other))
                ELSE \* a duty of 0 needs the whole base on one side
                     \E metal \in {0, base} :
                        RowShows(row, base, CompositeDuty(r, metal, base - metal))
====
